---- MODULE Spec2Model ----
(***************************************************************************)
(* Model of tuitionTable.py: the tiered tuition calculator (total_cost),   *)
(* the row builder (build_rows), the spreadsheet writer (write_xlsx) and   *)
(* the command-line entry point (main).                                    *)
(*                                                                         *)
(* Money is held in cents (123.94 is 12394), so the arithmetic is exact;   *)
(* the rounding of Python's binary floats is not modelled.  Python's None  *)
(* is the empty tuple and a present value x is <<x>>.                      *)
(***************************************************************************)
EXTENDS Integers, Sequences, FiniteSets, TLC

VARIABLES
    TUITION_RATES,      \* the module-level rate table
    openpyxl_installed, \* environment: "from openpyxl import Workbook" succeeds
    writable,           \* environment: workbook.save(path) succeeds
    fs,                 \* the files on disk: a set of [name, workbook]
    pc,                 \* main: the statement main is about to execute
    args,               \* main: the namespace parse_args returned
    rates,              \* main: local rates
    rows,               \* main: local rows
    output_filename,    \* main: local output_filename
    stdout,             \* lines printed to standard output
    stderr,             \* lines printed to standard error
    main_return,        \* the value main returned, None while it has not
    exit_code,          \* the exit status of the process, None while it runs
    steps,              \* history: the steps main has taken, in order
    writer_calls,       \* history: the (filename, rows) write_xlsx was called with
    call,               \* session: the last direct call of a function
    prev                \* session: an earlier build_rows call, remembered

vars == <<TUITION_RATES, openpyxl_installed, writable, fs, pc, args, rates, rows,
          output_filename, stdout, stderr, main_return, exit_code, steps,
          writer_calls, call, prev>>

envVars == <<openpyxl_installed, writable>>
mainVars == <<pc, args, rates, rows, output_filename, stdout, stderr, main_return,
              exit_code, steps, writer_calls>>
sessionVars == <<call, prev>>

----------------------------------------------------------------------------
\* Bounds of the model

\* the largest credit count tried (past the breakpoint at 10)
MaxCredits == 12
\* synthetic per-credit rates are drawn from 0..MaxRate
MaxRate == 2
\* the longest row sequence handed directly to write_xlsx
MaxRows == 2

----------------------------------------------------------------------------
\* Python values

None == <<>>
Some(x) == <<x>>

\* Python truthiness of an optional string: None and "" are falsy
Truthy(opt) == opt # None /\ opt[1] # ""

DigitStr(d) ==
    CASE d = 0 -> "0" [] d = 1 -> "1" [] d = 2 -> "2" [] d = 3 -> "3"
      [] d = 4 -> "4" [] d = 5 -> "5" [] d = 6 -> "6" [] d = 7 -> "7"
      [] d = 8 -> "8" [] d = 9 -> "9"

RECURSIVE NatStr(_)
NatStr(n) == IF n < 10 THEN DigitStr(n) ELSE NatStr(n \div 10) \o DigitStr(n % 10)

\* str(n) / f"{n}" of an int
IntStr(n) == IF n < 0 THEN "-" \o NatStr(0 - n) ELSE NatStr(n)

\* f"{x:.2f}" of an amount held in cents
Fmt2f(cents) ==
    NatStr(cents \div 100) \o "." \o DigitStr((cents % 100) \div 10) \o DigitStr(cents % 10)

----------------------------------------------------------------------------
\* The rate table (lines 10-23), in cents

RateTable ==
    [r \in {"resident", "non-resident"} |->
        IF r = "resident"
        THEN [lower_first_10 |-> 12394, lower_after_10 |-> 5778,
              upper_first_10 |-> 13354, upper_after_10 |-> 6738]
        ELSE [lower_first_10 |-> 27484, lower_after_10 |-> 20868,
              upper_first_10 |-> 28444, upper_after_10 |-> 21828]]

----------------------------------------------------------------------------
\* total_cost (lines 26-30)

\* mutant: the breakpoint one credit late
total_cost_breakpoint_11(credits, first_10_rate, after_10_rate) ==
    IF credits <= 11
    THEN credits * first_10_rate
    ELSE (10 * first_10_rate) + ((credits - 10) * after_10_rate)

\* mutant: the first ten credits are dropped from the second tier
total_cost_drops_first_tier(credits, first_10_rate, after_10_rate) ==
    IF credits <= 10
    THEN credits * first_10_rate
    ELSE (credits - 10) * after_10_rate

total_cost(credits, first_10_rate, after_10_rate) ==
    IF credits <= 10
    THEN credits * first_10_rate
    ELSE (10 * first_10_rate) + ((credits - 10) * after_10_rate)

----------------------------------------------------------------------------
\* build_rows (lines 33-40)

\* the body of the for loop: one row [credits, lower_total, upper_total]
build_row(credits, rs) ==
    LET lower_total == total_cost(credits, rs["lower_first_10"], rs["lower_after_10"])
        upper_total == total_cost(credits, rs["upper_first_10"], rs["upper_after_10"])
    IN  <<credits, lower_total, upper_total>>

RECURSIVE build_rows_loop(_, _, _, _)
\* the for loop over range(credits, stop) (stop excluded), appending to acc
build_rows_loop(credits, stop, rs, acc) ==
    IF credits >= stop
    THEN acc
    ELSE build_rows_loop(credits + 1, stop, rs, Append(acc, build_row(credits, rs)))

\* mutant: range(1, max_credits) loses the last row
build_rows_short_range(max_credits, rs) ==
    build_rows_loop(1, max_credits, rs, <<>>)

\* mutant: the list is shared between calls instead of created by each call
build_rows_shared_list(max_credits, rs) ==
    build_rows_loop(1, max_credits + 1, rs,
                    IF call.fn = "build_rows" THEN call.result ELSE <<>>)

build_rows(max_credits, rs) ==
    build_rows_loop(1, max_credits + 1, rs, <<>>)

----------------------------------------------------------------------------
\* The workbook of openpyxl as write_xlsx uses it (lines 52-70): a sheet is
\* its title and its rows, a row a tuple of cells, a cell a value and a
\* number format.

Cell(v) == [value |-> v, number_format |-> "General"]

\* Workbook() and workbook.active (lines 52-53)
Workbook == [title |-> "Sheet", cells |-> <<>>]

\* worksheet.append(values) (lines 56, 63)
ws_append(ws, values) ==
    [ws EXCEPT !.cells = Append(@, [c \in 1 .. Len(values) |-> Cell(values[c])])]

RECURSIVE ws_append_all(_, _)
\* for row in rows: worksheet.append(row) (lines 62-63)
ws_append_all(ws, rs) ==
    IF rs = <<>> THEN ws ELSE ws_append_all(ws_append(ws, Head(rs)), Tail(rs))

\* for row in worksheet.iter_rows(min_row, min_col, max_col): for cell in row:
\* cell.number_format = fmt (lines 66-68); max_row is the sheet's last row
ws_format(ws, min_row, min_col, max_col, fmt) ==
    LET old == ws.cells
    IN  [ws EXCEPT !.cells =
            [r \in 1 .. Len(old) |->
                [c \in 1 .. Len(old[r]) |->
                    IF r >= min_row /\ c >= min_col /\ c <= max_col
                    THEN [old[r][c] EXCEPT !.number_format = fmt]
                    ELSE old[r][c]]]]

Header == <<"# of Credits", "Tuition Cost for Lower-Division",
            "Tuition Cost for Upper-Division">>

money_format == "$#,##0.00"

\* mutant: iter_rows(min_row=1) formats the header row too
build_workbook_formats_header(rs) ==
    LET titled == [Workbook EXCEPT !.title = "Tuition"]
        filled == ws_append_all(ws_append(titled, Header), rs)
    IN  ws_format(filled, 1, 2, 3, money_format)

\* lines 52-68: the workbook write_xlsx builds from rows
build_workbook(rs) ==
    LET titled == [Workbook EXCEPT !.title = "Tuition"]
        filled == ws_append_all(ws_append(titled, Header), rs)
    IN  ws_format(filled, 2, 2, 3, money_format)

\* workbook.save(name) (line 70): the file is created or replaced
save(files, name, wb) ==
    {f \in files : f.name # name} \cup {[name |-> name, workbook |-> wb]}

ImportErrorMessage ==
    "openpyxl is required to create .xlsx files. Install it with: pip install openpyxl"

\* write_xlsx (lines 43-70): what it raises ("" when it returns), with the
\* message of the exception, and the files it leaves
write_xlsx(output_filename_, rs) ==
    IF ~openpyxl_installed
    THEN [raised |-> "RuntimeError", message |-> ImportErrorMessage, files |-> fs]
    ELSE IF ~writable
    THEN [raised |-> "OSError", message |-> "cannot write " \o output_filename_,
          files |-> fs]
    ELSE [raised |-> "", message |-> "",
          files |-> save(fs, output_filename_, build_workbook(rs))]

----------------------------------------------------------------------------
\* The initial state: the module is loaded, nothing has run

NoCall == [fn |-> "", args |-> <<>>, result |-> <<>>, raised |-> "", age |-> 0]

Init ==
    /\ TUITION_RATES = RateTable
    /\ openpyxl_installed \in BOOLEAN
    /\ writable \in BOOLEAN
    /\ fs = {}
    /\ pc = "parse_args"
    /\ args = None
    /\ rates = None
    /\ rows = None
    /\ output_filename = None
    /\ stdout = <<>>
    /\ stderr = <<>>
    /\ main_return = None
    /\ exit_code = None
    /\ steps = <<>>
    /\ writer_calls = <<>>
    /\ call = NoCall
    /\ prev = NoCall

----------------------------------------------------------------------------
\* A session that imports the module and calls its functions directly

\* the rate sets handed to build_rows: the two of the table, and synthetic
\* ones whose lower and upper division rates differ
RateSets ==
    {RateTable[r] : r \in DOMAIN RateTable} \cup
    {[lower_first_10 |-> f, lower_after_10 |-> MaxRate - f,
      upper_first_10 |-> f + 1, upper_after_10 |-> MaxRate + 1 - f] : f \in {0, MaxRate}}

\* a session starts with the library present and the disk writable
InitLib == Init /\ openpyxl_installed /\ writable

\* the observer's record of a call: age counts the calls made since it
\* (0: none, 1: one, 2: two or more)
Older(p) == IF p.fn = "" THEN p ELSE [p EXCEPT !.age = IF @ < 2 THEN @ + 1 ELSE @]

\* total_cost(credits, f, a) is called (lines 26-30)
CallTotalCost ==
    /\ \E credits \in 1 .. MaxCredits, f \in 0 .. MaxRate, a \in 0 .. MaxRate :
          call' = [fn |-> "total_cost", args |-> <<credits, f, a>>,
                   result |-> total_cost(credits, f, a), raised |-> "", age |-> 0]
    /\ prev' = Older(prev)
    /\ UNCHANGED <<TUITION_RATES, envVars, fs, mainVars>>

\* build_rows(max_credits, rates) is called (lines 33-40); the observer may
\* remember the call in prev
CallBuildRows ==
    /\ \E max_credits \in 1 .. MaxCredits, rs \in RateSets :
          call' = [fn |-> "build_rows", args |-> <<max_credits, rs>>,
                   result |-> build_rows(max_credits, rs), raised |-> "", age |-> 0]
    /\ prev' \in {Older(prev), call'}
    /\ UNCHANGED <<TUITION_RATES, envVars, fs, mainVars>>

NextLib == CallTotalCost \/ CallBuildRows

SpecLib == InitLib /\ [][NextLib]_vars

----------------------------------------------------------------------------
\* A session that calls write_xlsx directly, with any row sequence

SampleRows == {build_row(1, RateTable["resident"]), build_row(11, RateTable["non-resident"])}

RECURSIVE SeqsUpTo(_, _)
\* the sequences over S of length at most n
SeqsUpTo(S, n) ==
    IF n = 0 THEN {<<>>}
    ELSE LET shorter == SeqsUpTo(S, n - 1)
         IN  shorter \cup {Append(q, x) : q \in shorter, x \in S}

FileNames == {"a.xlsx", "b.xlsx"}

\* write_xlsx(output_filename, rows) is called (lines 43-70)
CallWriteXlsx ==
    /\ \E name \in FileNames, rs \in SeqsUpTo(SampleRows, MaxRows) :
          LET r == write_xlsx(name, rs)
          IN  /\ call' = [fn |-> "write_xlsx", args |-> <<name, rs>>,
                          result |-> <<>>, raised |-> r.raised, age |-> 0]
              /\ fs' = r.files
    /\ UNCHANGED <<TUITION_RATES, envVars, mainVars, prev>>

NextWriter == CallWriteXlsx

SpecWriter == Init /\ [][NextWriter]_vars

----------------------------------------------------------------------------
\* main (lines 95-124) and the process around it (lines 127-128)

\* what the command line may hold: a residency word, max_credits as the int
\* argparse converts it to (None: missing or no integer), and --output
ResidencyInputs == {"resident", "non-resident", "out-of-state"}
CreditInputs == {None} \cup {Some(n) : n \in -1 .. MaxCredits}
OutputInputs == {None, Some(""), Some("out.xlsx")}

\* choices=["resident", "non-resident"] (line 79)
ResidencyChoices == {"resident", "non-resident"}

UsageError == "usage: tuitionTable.py [-h] [--output OUTPUT] {resident,non-resident} max_credits"

\* parse_args (lines 73-92): argparse exits with status 2 on a usage error
ParseArgs ==
    /\ pc = "parse_args"
    /\ \E residency \in ResidencyInputs, max_credits \in CreditInputs,
          output \in OutputInputs :
          IF residency \in ResidencyChoices /\ max_credits # None
          THEN /\ args' = Some([residency |-> residency,
                                max_credits |-> max_credits[1],
                                output |-> output])
               /\ pc' = "check_max_credits"
               /\ UNCHANGED <<stderr, exit_code>>
          ELSE /\ stderr' = stderr \o <<UsageError, "tuitionTable.py: error: invalid arguments">>
               /\ exit_code' = Some(2)
               /\ pc' = "exited"
               /\ UNCHANGED args
    /\ UNCHANGED <<TUITION_RATES, envVars, fs, rates, rows, output_filename, stdout,
                   main_return, steps, writer_calls, sessionVars>>

\* mutant: the check is max_credits < 0, so 0 passes
CheckMaxCredits_allows_zero ==
    /\ pc = "check_max_credits"
    /\ steps' = Append(steps, "validate")
    /\ IF args[1].max_credits < 0
       THEN /\ stderr' = Append(stderr, "Error: max_credits must be at least 1.")
            /\ main_return' = Some(2)
            /\ pc' = "exit"
       ELSE /\ pc' = "lookup"
            /\ UNCHANGED <<stderr, main_return>>
    /\ UNCHANGED <<TUITION_RATES, envVars, fs, args, rates, rows, output_filename,
                   stdout, exit_code, writer_calls, sessionVars>>

\* lines 98-100
CheckMaxCredits ==
    /\ pc = "check_max_credits"
    /\ steps' = Append(steps, "validate")
    /\ IF args[1].max_credits < 1
       THEN /\ stderr' = Append(stderr, "Error: max_credits must be at least 1.")
            /\ main_return' = Some(2)
            /\ pc' = "exit"
       ELSE /\ pc' = "lookup"
            /\ UNCHANGED <<stderr, main_return>>
    /\ UNCHANGED <<TUITION_RATES, envVars, fs, args, rates, rows, output_filename,
                   stdout, exit_code, writer_calls, sessionVars>>

\* line 102
LookupRates ==
    /\ pc = "lookup"
    /\ steps' = Append(steps, "lookup")
    /\ rates' = Some(TUITION_RATES[args[1].residency])
    /\ pc' = "build_rows"
    /\ UNCHANGED <<TUITION_RATES, envVars, fs, args, rows, output_filename, stdout,
                   stderr, main_return, exit_code, writer_calls, sessionVars>>

\* line 103
BuildRows ==
    /\ pc = "build_rows"
    /\ steps' = Append(steps, "build")
    /\ rows' = Some(build_rows(args[1].max_credits, rates[1]))
    /\ pc' = "choose_filename"
    /\ UNCHANGED <<TUITION_RATES, envVars, fs, args, rates, output_filename, stdout,
                   stderr, main_return, exit_code, writer_calls, sessionVars>>

\* the f-string of line 108
DefaultFilename(residency, max_credits) ==
    "tuition_" \o residency \o "_1_to_" \o IntStr(max_credits) \o ".xlsx"

\* lines 105-108
ChooseFilename ==
    /\ pc = "choose_filename"
    /\ output_filename' =
          IF Truthy(args[1].output)
          THEN Some(args[1].output[1])
          ELSE Some(DefaultFilename(args[1].residency, args[1].max_credits))
    /\ pc' = "write_xlsx"
    /\ UNCHANGED <<TUITION_RATES, envVars, fs, args, rates, rows, stdout, stderr,
                   main_return, exit_code, steps, writer_calls, sessionVars>>

\* the traceback the interpreter prints for an exception nothing catches
Traceback(kind, message) ==
    <<"Traceback (most recent call last):", "  File \"tuitionTable.py\", in main",
      kind \o ": " \o message>>

\* lines 110-114 with the except clause's return value and continuation left
\* open: write_xlsx is called; a RuntimeError is caught and reported, any
\* other exception leaves main and ends the process with a traceback
TryWriteXlsx(handler_return, handler_pc) ==
    /\ pc = "write_xlsx"
    /\ steps' = Append(steps, "write")
    /\ writer_calls' = Append(writer_calls, <<output_filename[1], rows[1]>>)
    /\ LET r == write_xlsx(output_filename[1], rows[1])
       IN  /\ fs' = r.files
           /\ CASE r.raised = "" ->
                     /\ pc' = "print_created"
                     /\ UNCHANGED <<stderr, main_return, exit_code>>
                [] r.raised = "RuntimeError" ->
                     /\ stderr' = Append(stderr, "Error: " \o r.message)
                     /\ main_return' = handler_return
                     /\ pc' = handler_pc
                     /\ UNCHANGED exit_code
                [] OTHER ->
                     /\ stderr' = stderr \o Traceback(r.raised, r.message)
                     /\ exit_code' = Some(1)
                     /\ pc' = "exited"
                     /\ UNCHANGED main_return
    /\ UNCHANGED <<TUITION_RATES, envVars, args, rates, rows, output_filename, stdout,
                   sessionVars>>

\* mutant: the except clause returns the validation code
WriteXlsx_returns_2 == TryWriteXlsx(Some(2), "exit")

\* mutant: the except clause reports the error and does not return
WriteXlsx_falls_through == TryWriteXlsx(None, "print_created")

\* lines 110-114: the except clause returns 1
WriteXlsx == TryWriteXlsx(Some(1), "exit")

\* line 116
PrintCreated ==
    /\ pc = "print_created"
    /\ steps' = Append(steps, "print")
    /\ stdout' = Append(stdout, "Created " \o output_filename[1])
    /\ pc' = "print_rates"
    /\ UNCHANGED <<TUITION_RATES, envVars, fs, args, rates, rows, output_filename,
                   stderr, main_return, exit_code, writer_calls, sessionVars>>

\* the f-string of lines 118-122
RatesLine(rs) ==
    "Rates used: "
    \o "lower 1-10=$" \o Fmt2f(rs["lower_first_10"]) \o ", "
    \o "lower 11+=$" \o Fmt2f(rs["lower_after_10"]) \o ", "
    \o "upper 1-10=$" \o Fmt2f(rs["upper_first_10"]) \o ", "
    \o "upper 11+=$" \o Fmt2f(rs["upper_after_10"])

\* lines 117-123
PrintRates ==
    /\ pc = "print_rates"
    /\ stdout' = Append(stdout, RatesLine(rates[1]))
    /\ pc' = "return_0"
    /\ UNCHANGED <<TUITION_RATES, envVars, fs, args, rates, rows, output_filename,
                   stderr, main_return, exit_code, steps, writer_calls, sessionVars>>

\* line 124
Return0 ==
    /\ pc = "return_0"
    /\ main_return' = Some(0)
    /\ pc' = "exit"
    /\ UNCHANGED <<TUITION_RATES, envVars, fs, args, rates, rows, output_filename,
                   stdout, stderr, exit_code, steps, writer_calls, sessionVars>>

\* line 128: raise SystemExit(main()) ends the process with main's value
SystemExit ==
    /\ pc = "exit"
    /\ exit_code' = main_return
    /\ pc' = "exited"
    /\ UNCHANGED <<TUITION_RATES, envVars, fs, args, rates, rows, output_filename,
                   stdout, stderr, main_return, steps, writer_calls, sessionVars>>

Next ==
    \/ ParseArgs
    \/ CheckMaxCredits
    \/ LookupRates
    \/ BuildRows
    \/ ChooseFilename
    \/ WriteXlsx
    \/ PrintCreated
    \/ PrintRates
    \/ Return0
    \/ SystemExit

Spec == Init /\ [][Next]_vars

----------------------------------------------------------------------------
\* Properties of total_cost and build_rows, checked under SpecLib

\* C1: total_cost(credits, f, a) is credits*f up to and including 10 credits
\* and 10*f + (credits-10)*a above 10, for every credits >= 1 and rates >= 0.
C1_TieredCost ==
    call.fn = "total_cost" =>
        LET credits == call.args[1]
            f == call.args[2]
            a == call.args[3]
        IN  /\ credits <= 10 => call.result = credits * f
            /\ credits > 10 => call.result = 10 * f + (credits - 10) * a

\* total_cost(10, 2, 1) was called: ten credits, all at the first-tier rate
C1_Witness ==
    call.fn = "total_cost" /\ call.args = <<10, 2, 1>> /\ call.result = 20

\* C2: build_rows(maxCredits, rates) returns exactly maxCredits rows and row i
\* is (i, total_cost at the lower-division rates, total_cost at the
\* upper-division rates).
C2_RowsOneToN ==
    call.fn = "build_rows" =>
        LET n == call.args[1]
            rs == call.args[2]
            res == call.result
        IN  /\ Len(res) = n
            /\ \A i \in 1 .. n :
                  res[i] = <<i,
                             total_cost(i, rs.lower_first_10, rs.lower_after_10),
                             total_cost(i, rs.upper_first_10, rs.upper_after_10)>>

\* build_rows was called for MaxCredits credits with rates that differ
\* between the divisions and the tiers
C2_Witness ==
    /\ call.fn = "build_rows"
    /\ call.args[1] = MaxCredits
    /\ Len(call.result) = MaxCredits
    /\ call.result[MaxCredits][2] # call.result[MaxCredits][3]
    /\ call.args[2].lower_first_10 # call.args[2].lower_after_10

\* C3: for fixed non-negative rates total_cost never decreases as credits
\* grow: every smaller credit count costs at most what the call returned.
C3_Monotone ==
    call.fn = "total_cost" =>
        \A c1 \in 1 .. call.args[1] :
            total_cost(c1, call.args[2], call.args[3]) <= call.result

\* a call past the breakpoint whose after-10 rate is below the first-10 rate
C3_Witness ==
    /\ call.fn = "total_cost"
    /\ call.args[1] > 10
    /\ call.args[3] < call.args[2]

----------------------------------------------------------------------------
\* Properties of write_xlsx, checked under SpecWriter

\* C8: the document write_xlsx saves has the sheet title "Tuition", the
\* three-label header as first row and then the input rows in input order;
\* the currency format is on columns 2 and 3 of every data row and on no
\* other cell, and the stored values are the values of the rows.
C8_Document ==
    (call.fn = "write_xlsx" /\ call.raised = "") =>
        \E f \in fs :
            /\ f.name = call.args[1]
            /\ LET rs == call.args[2]
                   wb == f.workbook
               IN  /\ wb.title = "Tuition"
                   /\ Len(wb.cells) = Len(rs) + 1
                   /\ wb.cells[1] =
                         <<[value |-> "# of Credits", number_format |-> "General"],
                           [value |-> "Tuition Cost for Lower-Division",
                            number_format |-> "General"],
                           [value |-> "Tuition Cost for Upper-Division",
                            number_format |-> "General"]>>
                   /\ \A i \in 1 .. Len(rs) :
                         /\ Len(wb.cells[i + 1]) = 3
                         /\ \A c \in 1 .. 3 :
                               /\ wb.cells[i + 1][c].value = rs[i][c]
                               /\ wb.cells[i + 1][c].number_format =
                                     IF c = 1 THEN "General" ELSE "$#,##0.00"

\* write_xlsx saved two rows given in descending credit order
C8_Witness ==
    /\ call.fn = "write_xlsx"
    /\ call.raised = ""
    /\ Len(call.args[2]) = 2
    /\ call.args[2][1][1] > call.args[2][2][1]
    /\ \E f \in fs : f.name = call.args[1] /\ Len(f.workbook.cells) = 3

----------------------------------------------------------------------------
\* Properties of main, checked under Spec

FileWritten == \E f \in fs : output_filename # None /\ f.name = output_filename[1]

\* C4: with max_credits < 1 main exits with code 2 after one error line on
\* standard error; the writer is never called, no file is written and
\* nothing goes to standard output.
C4_ValidationError ==
    (args # None /\ args[1].max_credits < 1) =>
        /\ pc \in {"check_max_credits", "exit", "exited"}
        /\ writer_calls = <<>>
        /\ fs = {}
        /\ stdout = <<>>
        /\ pc # "check_max_credits" =>
              /\ main_return = Some(2)
              /\ stderr = <<"Error: max_credits must be at least 1.">>
        /\ pc = "exited" => exit_code = Some(2)

\* main has exited on max_credits = 0 with --output given
C4_Witness ==
    /\ pc = "exited"
    /\ args # None
    /\ args[1].max_credits = 0
    /\ args[1].output = Some("out.xlsx")
    /\ exit_code = Some(2)

\* C5: without the spreadsheet library and with max_credits >= 1, main exits
\* with code 1, standard error carries the installation guidance, no file is
\* written and standard output stays empty.
C5_DependencyError ==
    (~openpyxl_installed /\ args # None /\ args[1].max_credits >= 1) =>
        /\ fs = {}
        /\ stdout = <<>>
        /\ pc \in {"exit", "exited"} =>
              /\ main_return = Some(1)
              /\ stderr = <<"Error: openpyxl is required to create .xlsx files. Install it with: pip install openpyxl">>
        /\ pc = "exited" => exit_code = Some(1)

\* main has exited after write_xlsx found the library missing
C5_Witness ==
    /\ ~openpyxl_installed
    /\ pc = "exited"
    /\ Len(writer_calls) = 1
    /\ exit_code = Some(1)

\* C6: the filename handed to the writer is the --output value whenever the
\* flag is given, the empty string included, and the default name otherwise.
C6_OutputOverrides ==
    \A i \in 1 .. Len(writer_calls) :
        writer_calls[i][1] =
            IF args[1].output # None
            THEN args[1].output[1]
            ELSE DefaultFilename(args[1].residency, args[1].max_credits)

\* C7: every failure of the writer on valid arguments ends main with code 1
\* and a single line "Error: <description>" on standard error.
C7_WriterFailureReported ==
    (pc = "exited" /\ writer_calls # <<>> /\ ~FileWritten) =>
        /\ exit_code = Some(1)
        /\ Len(stderr) = 1
        /\ stderr = <<"Error: " \o write_xlsx(output_filename[1], rows[1]).message>>

\* C10: main's steps run in the order validate, lookup, build, write, print;
\* main returns 0 exactly when the file was written; the confirmation is
\* printed only after the write, is followed by the rates of the selected
\* residency, and a run that exits non-zero prints neither.
C10_OrderAndOutput ==
    LET order == <<"validate", "lookup", "build", "write", "print">>
    IN  /\ Len(steps) <= Len(order)
        /\ steps = SubSeq(order, 1, Len(steps))
        /\ pc \in {"exit", "exited"} => (main_return = Some(0) <=> FileWritten)
        /\ pc = "exited" => (exit_code = Some(0) <=> FileWritten)
        /\ stdout # <<>> =>
              /\ FileWritten
              /\ Len(steps) = Len(order)
              /\ stdout[1] = "Created " \o output_filename[1]
        /\ Len(stdout) <= 2
        /\ Len(stdout) = 2 =>
              stdout[2] =
                IF args[1].residency = "resident"
                THEN "Rates used: lower 1-10=$123.94, lower 11+=$57.78, upper 1-10=$133.54, upper 11+=$67.38"
                ELSE "Rates used: lower 1-10=$274.84, lower 11+=$208.68, upper 1-10=$284.44, upper 11+=$218.28"
        /\ main_return = Some(0) => Len(stdout) = 2
        /\ (pc = "exited" /\ exit_code # Some(0)) => stdout = <<>>

\* main has exited with 0 after all five steps and both lines
C10_Witness ==
    /\ pc = "exited"
    /\ exit_code = Some(0)
    /\ Len(steps) = 5
    /\ Len(stdout) = 2
    /\ FileWritten

====
